---------------------------- MODULE Spec2Model ----------------------------
(***************************************************************************)
(* A model of jflib.command_watcher: Watch.run, the Process constructor    *)
(* with its two pipe reader threads and its consumer loop, and the         *)
(* LoggingHandler that stores and prints the records.                      *)
(*                                                                         *)
(* Bytes and characters are their code points (10 = LF, 32 = space,        *)
(* 97 = 'a', 98 = 'b', 255 = a byte that is valid nowhere in UTF-8).       *)
(* A line is the tuple of the bytes readline() returns, terminator         *)
(* included.  None is the empty tuple; a value that may be None is a       *)
(* tuple of length 0 or 1.                                                 *)
(***************************************************************************)
EXTENDS Integers, Sequences, FiniteSets

(***************************************************************************)
(* Bounds of the model.                                                    *)
(***************************************************************************)
\* Lines the children of one Watch write, all streams and runs together.
MaxWrites == 3
\* Lines a pipe holds before the writing child blocks.
PipeCap == 1
\* Calls of Watch.run on one Watch (specification RunsSpec).
MaxRuns == 2
\* Stand-in for the handler capacity (1000000 in LoggingHandler.__init__),
\* scaled so that MaxRuns runs of MaxWrites lines stay below it, as runs do
\* below the real one, and a caller who keeps logging reaches it.
Capacity == 11
\* Records logged through Watch.log by the caller (specification EmitSpec).
MaxEmits == 12
\* Records in the buffer whose views are read (specification ViewSpec).
MaxViewLen == 3
\* Reader keywords passed to ConfigReader (specifications ConfigSpec and
\* CheckSpec).
MaxReaders == 2
\* Watch objects constructed in one interpreter.
MaxWatches == 2
\* Calls of Watch.report.
MaxReports == 2

\* How deep the with Capturing blocks are nested, how many of them are
\* entered, and how many times text is printed to one stream object.
MaxBlocks == 2
MaxCaptures == 2
MaxPrints == 1

(***************************************************************************)
(* Program constants.                                                      *)
(***************************************************************************)
STDERR == 35
STDOUT == 5
INFO == 20
\* Mutant: the consumer loop waits for one sentinel only.
OneSentinel == 2 - 1
\* range(2) of the consumer loop: one sentinel per reader thread.
NSentinels == 2

Streams == {"stdout", "stderr"}
None == <<>>
Some(x) == <<x>>

\* The lines a child may write: 'a', ' b ' (padded on both sides), a line of
\* one space, and a line holding a byte that is not UTF-8.
LineA == <<97, 10>>
LineB == <<32, 98, 32, 10>>
BlankLine == <<32, 10>>
BinaryLine == <<255, 10>>
TextLines == {LineA, LineB, BlankLine}

\* Messages of the records the program logs itself, by their first letters.
RunCommandMsg == <<82, 117, 110>>
ExecutionTimeMsg == <<69, 120, 101>>
HostnameMsg == <<72, 111, 115>>

ExitCodes == {0, 1, 2}
IgnoreLists == { {}, {1} }

(***************************************************************************)
(* bytes.decode('utf-8') and str.strip().                                  *)
(***************************************************************************)
\* Strict decoding: no byte of the model's alphabet at or above 128 starts
\* or continues a valid sequence.
Decodable(bytes) == \A i \in 1..Len(bytes) : bytes[i] < 128

IsSpace(c) == c \in {9, 10, 11, 12, 13, 28, 29, 30, 31, 32}

\* Mutant: the line is recorded untrimmed.
StripNothing(s) == s

RECURSIVE LStrip(_)
LStrip(s) == IF s # <<>> /\ IsSpace(Head(s)) THEN LStrip(Tail(s)) ELSE s

RECURSIVE RStrip(_)
RStrip(s) ==
    IF s # <<>> /\ IsSpace(s[Len(s)]) THEN RStrip(SubSeq(s, 1, Len(s) - 1)) ELSE s

Strip(s) == RStrip(LStrip(s))

(***************************************************************************)
(* State.                                                                  *)
(***************************************************************************)
VARIABLES
    raise_exceptions_arg, \* Watch(raise_exceptions=...): None if not passed
    raise_exceptions,  \* Watch._raise_exceptions
    log,               \* run(log=...)
    ignore_exceptions, \* run(ignore_exceptions=...)
    mpc,               \* the calling thread's position in Watch.run / Process.__init__
    child,             \* "none", "running", "exited"
    exitStatus,        \* the child's exit status, once exited
    written,           \* per stream, the lines the child has written into the pipe
    pipe,              \* per stream, the lines in the pipe
    pipeClosed,        \* per stream, whether the read end is closed
    pending,           \* the write the child is blocked in: None or Some(<<stream, line>>)
    rpc,               \* per stream, the reader thread's position
    failed,            \* per stream, whether the reader thread raised
    queue,             \* Process._queue
    nloop,             \* the consumer's outer loop index: sentinels taken
    buffer,            \* Process.log_handler.buffer
    returncode,        \* Process.subprocess.returncode
    wbuffer,           \* Watch._log_handler.buffer
    wemitted,          \* every record emitted to the Watch's handler, in order
    term,              \* what was printed to the real stdout and stderr
    processes,         \* Watch.processes
    reports,           \* the reports handed to reporter.report
    outcome,           \* how Watch.run ended: None, or Some(name)
    history,           \* how the earlier calls of Watch.run ended, in call order
    conf,              \* the ConfigReader: None, or Some([spec, readers])
    ret,               \* what the last call of a query returned or raised
    channels,          \* reporter.channels, the list of the module's reporter
    delivered,         \* the calls channel.report(message), in call order
    watches,           \* the Watch objects constructed, the last one current
    sys,               \* sys.stdout and sys.stderr: the stream objects in place
    blocks,            \* the Capturing objects whose with block runs, innermost last
    io                 \* the StringIO objects made so far: what was written to each

vars == << raise_exceptions_arg, raise_exceptions, log, ignore_exceptions, mpc, child, exitStatus,
           written, pipe, pipeClosed, pending, rpc, failed, queue, nloop,
           buffer, returncode,
           wbuffer, wemitted, term, processes, reports, outcome,
           history, conf, ret, channels, delivered, watches, sys, blocks, io >>

watchVars == << wbuffer, wemitted, term >>
childVars == << child, exitStatus, written, pipe, pending >>
argVars == << raise_exceptions_arg, raise_exceptions, log, ignore_exceptions >>
reporterVars == << channels, delivered, watches >>
capVars == << sys, blocks, io >>
libVars == << history, conf, ret, reporterVars, capVars >>

Record(level, msg) == [level |-> level, msg |-> msg]

(***************************************************************************)
(* LoggingHandler.                                                         *)
(***************************************************************************)
\* BufferingHandler.shouldFlush
ShouldFlush(buf) == Len(buf) >= Capacity

\* emit's effect on the handler's buffer: append, then flush() (which
\* empties the buffer) if shouldFlush.
EmitBuffer(buf, rec) ==
    LET b == Append(buf, rec) IN IF ShouldFlush(b) THEN <<>> ELSE b

\* Mutant: a record of the level STDERR itself goes to the real stdout.
PrintStreamAbove(rec) == IF rec.level > STDERR THEN "stderr" ELSE "stdout"
\* LoggingHandler._print: the real stream is chosen by the numeric level.
PrintStream(rec) == IF rec.level >= STDERR THEN "stderr" ELSE "stdout"

PrintRecord(t, rec) == [t EXCEPT ![PrintStream(rec)] = Append(@, rec)]

\* A record logged on the Watch's logger: its handler has no master logger.
WatchEmit(rec) ==
    /\ wbuffer' = EmitBuffer(wbuffer, rec)
    /\ wemitted' = Append(wemitted, rec)
    /\ term' = PrintRecord(term, rec)

\* Mutant: every Process asks for the logger of one fixed name.
UuidSame(n) == 1
\* str(uuid.uuid1()), the n-th identifier generated: identifiers generated
\* by different calls differ.
Uuid1(n) == n

\* The name setup_logging gives the logger of the Process of the call in
\* progress, the (Len(history) + 1)-th call of Watch.run.
ProcessLogger == Uuid1(Len(history) + 1)

\* logging.getLogger(name) returns the one logger of that name, and a record
\* logged on it goes to every handler added to it: the handlers of the
\* earlier Processes whose logger has the name.
Attached(name) == {i \in 1..Len(processes) : processes[i].logger = name}

RECURSIVE EmitTimes(_, _, _)
EmitTimes(buf, rec, n) ==
    IF n = 0 THEN buf ELSE EmitTimes(EmitBuffer(buf, rec), rec, n - 1)

RECURSIVE AppendTimes(_, _, _)
AppendTimes(seq, x, n) ==
    IF n = 0 THEN seq ELSE AppendTimes(Append(seq, x), x, n - 1)

\* Mutant: a handler with a master logger prints the record as well.
ProcessEmitPrinting(master, rec) ==
    LET others == Attached(ProcessLogger)
        forwards == Cardinality({i \in others : processes[i].master})
                      + (IF master THEN 1 ELSE 0)
        prints == Cardinality(others) + 1
    IN /\ buffer' = EmitBuffer(buffer, rec)
       /\ processes' = [i \in 1..Len(processes) |->
                          IF i \in others
                            THEN [processes[i] EXCEPT !.buffer = EmitBuffer(@, rec)]
                            ELSE processes[i]]
       /\ wbuffer' = EmitTimes(wbuffer, rec, forwards)
       /\ wemitted' = AppendTimes(wemitted, rec, forwards)
       /\ term' = [term EXCEPT
                     ![PrintStream(rec)] = AppendTimes(@, rec, forwards + prints)]
\* A record logged on the Process's logger: every handler of that logger
\* stores it, then forwards it to its master logger (run(log=True)) or
\* prints it.
ProcessEmit(master, rec) ==
    LET others == Attached(ProcessLogger)
        forwards == Cardinality({i \in others : processes[i].master})
                      + (IF master THEN 1 ELSE 0)
        prints == Cardinality({i \in others : ~processes[i].master})
                      + (IF master THEN 0 ELSE 1)
    IN /\ buffer' = EmitBuffer(buffer, rec)
       /\ processes' = [i \in 1..Len(processes) |->
                          IF i \in others
                            THEN [processes[i] EXCEPT !.buffer = EmitBuffer(@, rec)]
                            ELSE processes[i]]
       /\ wbuffer' = EmitTimes(wbuffer, rec, forwards)
       /\ wemitted' = AppendTimes(wemitted, rec, forwards)
       /\ term' = [term EXCEPT
                     ![PrintStream(rec)] = AppendTimes(@, rec, forwards + prints)]

\* Mutant: the two streams' levels are swapped.
LevelSwapped(s) == IF s = "stderr" THEN STDOUT ELSE STDERR
\* The level the consumer logs a line of stream s at.
LevelOf(s) == IF s = "stderr" THEN STDERR ELSE STDOUT

\* LoggingHandler.stdout / .stderr before the join: the messages of the
\* records of one level, in buffer order.
RECURSIVE Messages(_, _)
Messages(buf, level) ==
    IF buf = <<>> THEN <<>>
    ELSE IF Head(buf).level = level
         THEN <<Head(buf).msg>> \o Messages(Tail(buf), level)
         ELSE Messages(Tail(buf), level)

\* record.levelname: the names of the logging module and the two names
\* added by logging.addLevelName; a level without a name is 'Level <n>'.
LevelName(levelno) ==
    CASE levelno = 50 -> "CRITICAL"
      [] levelno = 40 -> "ERROR"
      [] levelno = STDERR -> "STDERR"
      [] levelno = 30 -> "WARNING"
      [] levelno = 20 -> "INFO"
      [] levelno = 10 -> "DEBUG"
      [] levelno = STDOUT -> "STDOUT"
      [] levelno = 0 -> "NOTSET"
      [] OTHER -> "Level"

\* The loop of the stdout and stderr properties: the messages of the records
\* whose levelname is name.
RECURSIVE NamedMessages(_, _)
NamedMessages(buf, name) ==
    IF buf = <<>> THEN <<>>
    ELSE IF LevelName(Head(buf).level) = name
         THEN <<Head(buf).msg>> \o NamedMessages(Tail(buf), name)
         ELSE NamedMessages(Tail(buf), name)

\* Mutant: the messages are joined by nothing.
RECURSIVE Concat(_, _)
Concat(sep, strs) ==
    IF strs = <<>> THEN <<>> ELSE Head(strs) \o Concat(sep, Tail(strs))
\* sep.join(strs)
RECURSIVE Join(_, _)
Join(sep, strs) ==
    IF strs = <<>> THEN <<>>
    ELSE IF Len(strs) = 1 THEN Head(strs)
         ELSE Head(strs) \o sep \o Join(sep, Tail(strs))

\* LoggingHandler.stdout and LoggingHandler.stderr
StdoutView(buf) == Join(<<10>>, NamedMessages(buf, "STDOUT"))
StderrView(buf) == Join(<<10>>, NamedMessages(buf, "STDERR"))

(***************************************************************************)
(* LoggingHandler.all_records: the records formatted by                    *)
(* '%(asctime)s_%(msecs)03d %(levelname)s %(message)s' and joined by '\n'. *)
(***************************************************************************)
\* The time of a record is not part of the model: every record is stamped
\* '0'.
Asctime == <<48>>

\* The characters of a level name.
NameText(name) ==
    CASE name = "CRITICAL" -> <<67, 82, 73, 84, 73, 67, 65, 76>>
      [] name = "ERROR" -> <<69, 82, 82, 79, 82>>
      [] name = "STDERR" -> <<83, 84, 68, 69, 82, 82>>
      [] name = "WARNING" -> <<87, 65, 82, 78, 73, 78, 71>>
      [] name = "INFO" -> <<73, 78, 70, 79>>
      [] name = "DEBUG" -> <<68, 69, 66, 85, 71>>
      [] name = "STDOUT" -> <<83, 84, 68, 79, 85, 84>>
      [] name = "NOTSET" -> <<78, 79, 84, 83, 69, 84>>
      [] OTHER -> <<76, 101, 118, 101, 108>>

\* self.format(record)
FormatRecord(rec) ==
    Asctime \o <<32>> \o NameText(LevelName(rec.level)) \o <<32>> \o rec.msg

\* Mutant: only the records from WARNING upwards are rendered.
AllRecordsFromWarning(buf) ==
    LET kept == SelectSeq(buf, LAMBDA rec : rec.level >= 30)
    IN Join(<<10>>, [i \in 1..Len(kept) |-> FormatRecord(kept[i])])
\* LoggingHandler.all_records
AllRecords(buf) == Join(<<10>>, [i \in 1..Len(buf) |-> FormatRecord(buf[i])])

(***************************************************************************)
(* The module's reporter and the channels a Watch registers with it.       *)
(***************************************************************************)
DEBUG == 10

\* The channels Watch.__init__ can set up from the configuration, in the
\* order it does.
ChannelKinds == << "email", "icinga", "beep" >>

\* The messages '[E', '[I', '[B' (a channel logged at its registration) and
\* '[M' (a Message logged by Watch.report).
ChannelMsg(kind) ==
    CASE kind = "email" -> <<91, 69>>
      [] kind = "icinga" -> <<91, 73>>
      [] kind = "beep" -> <<91, 66>>
MessageMsg == <<91, 77>>

\* A channel object: its class and the Watch whose constructor made it (0
\* for a channel the caller made).
Channel(kind, n) == [kind |-> kind, of |-> n]

\* The channels the n-th Watch constructs: with report_channels=None, one
\* for each section of the configuration that passes its check.
NewChannels(config, report_channels, n) ==
    IF report_channels = None
      THEN LET kinds == SelectSeq(ChannelKinds, LAMBDA kind : kind \in config)
           IN [i \in 1..Len(kinds) |-> Channel(kinds[i], n)]
      ELSE <<>>

\* reporter.channels after the n-th Watch is constructed: add_channel for
\* each new channel, or `reporter.channels = []` if report_channels is given.
ReporterChannels(chs, config, report_channels, n) ==
    IF report_channels = None
      THEN chs \o NewChannels(config, report_channels, n)
      ELSE <<>>

\* The records the constructor of the n-th Watch logs: the hostname, and at
\* the level DEBUG each channel it registers.
WatchInitRecords(config, report_channels, n) ==
    << Record(INFO, HostnameMsg) >> \o
    LET new == NewChannels(config, report_channels, n)
    IN [i \in 1..Len(new) |-> Record(DEBUG, ChannelMsg(new[i].kind))]

\* A Watch object: its arguments and, once a later Watch is the current
\* one, its buffer and its processes.
WatchObject(config, report_channels, service_name) ==
    [config |-> config, report_channels |-> report_channels,
     service_name |-> service_name, buffer |-> <<>>, processes |-> <<>>]

\* Mutant: only the first channel gets the message.
DeliveriesToFirst(chs, n) ==
    IF chs = <<>> THEN <<>> ELSE << [channel |-> chs[1], report |-> n] >>
\* The loop of Reporter.report: channel.report(message) for every channel,
\* n being the number of the message.
Deliveries(chs, n) == [i \in 1..Len(chs) |-> [channel |-> chs[i], report |-> n]]

(***************************************************************************)
(* jflib.capturing.  A stream object is the name of its class and its      *)
(* number in io, the list of what was written to each stream object: the   *)
(* interpreter's own stdout and stderr are the objects 1 and 2, the        *)
(* StringIO objects follow in the order they are made.                     *)
(***************************************************************************)
RealStream(s) == [kind |-> "TextIOWrapper", n |-> IF s = "stdout" THEN 1 ELSE 2]
StringIO(k) == [kind |-> "StringIO", n |-> k]

(***************************************************************************)
(* Initial state: a Watch has been constructed (it logged its hostname),   *)
(* run has not been called.                                                *)
(***************************************************************************)
\* raise_exceptions: bool = True in Watch.__init__
RaiseExceptionsDefault == TRUE

InitWatch(raising, configs, lists) ==
    /\ raise_exceptions_arg \in raising
    /\ raise_exceptions = IF raise_exceptions_arg = None
                            THEN RaiseExceptionsDefault
                            ELSE raise_exceptions_arg[1]
    /\ log = TRUE
    /\ ignore_exceptions = {}
    /\ mpc = "idle"
    /\ child = "none"
    /\ exitStatus = None
    /\ written = [s \in Streams |-> <<>>]
    /\ pipe = [s \in Streams |-> <<>>]
    /\ pipeClosed = [s \in Streams |-> FALSE]
    /\ pending = None
    /\ rpc = [s \in Streams |-> "unstarted"]
    /\ failed = [s \in Streams |-> FALSE]
    /\ queue = <<>>
    /\ nloop = 0
    /\ buffer = <<>>
    /\ returncode = None
    /\ \E config \in configs, report_channels \in lists :
          /\ wbuffer = WatchInitRecords(config, report_channels, 1)
          /\ channels = ReporterChannels(<<>>, config, report_channels, 1)
          /\ watches = << WatchObject(config, report_channels, "test") >>
    /\ wemitted = wbuffer
    /\ term = [stdout |-> wbuffer, stderr |-> <<>>]
    /\ delivered = <<>>
    /\ processes = <<>>
    /\ reports = <<>>
    /\ outcome = None
    /\ history = <<>>
    /\ conf = None
    /\ ret = None
    /\ sys = [s \in Streams |-> RealStream(s)]
    /\ blocks = <<>>
    /\ io = << <<>>, <<>> >>

\* The Watch of the tests: Watch(config_file=CONF, service_name='test',
\* report_channels=[]).
InitWith(raising) == InitWatch(raising, {{}}, {Some(<<>>)})

(***************************************************************************)
(* Watch.run up to the start of the readers: Process.__init__ creates the  *)
(* queue and a fresh logger, logs 'Run command: ...' and spawns the child. *)
(***************************************************************************)
\* Mutant: there is a master logger whatever run's log argument is.
MasterAlways(l) == TRUE
\* `if log: master_logger = self.log else: master_logger = None`: whether
\* the Process gets a master logger.
MasterLogger(l) == l

\* Mutant: the constructor of Process only stores its arguments; the child
\* is left to a later operation.
WatchRunDeferred(l, ign) ==
    /\ mpc = "idle"
    /\ log' = l
    /\ ignore_exceptions' = ign
    /\ mpc' = "constructed"
    /\ returncode' = Some(0)
    /\ UNCHANGED << raise_exceptions_arg, raise_exceptions, libVars, childVars,
                    pipeClosed, rpc, failed, queue, nloop, buffer, watchVars,
                    processes, reports, outcome >>

WatchRun(l, ign) ==
    /\ mpc = "idle"
    /\ log' = l
    /\ ignore_exceptions' = ign
    /\ queue' = <<>>
    /\ ProcessEmit(MasterLogger(l), Record(INFO, RunCommandMsg))
    /\ child' = "running"
    /\ mpc' = "start_stdout"
    /\ UNCHANGED << raise_exceptions_arg, raise_exceptions, libVars, exitStatus, written, pipe,
                    pipeClosed, pending, rpc, failed, nloop, returncode,
                    reports, outcome >>

\* Mutant: the failure to spawn is swallowed and a Process is handed back.
PopenSwallowed == "Process"
\* What subprocess.Popen raises when the child cannot be spawned
\* (FileNotFoundError, PermissionError: subclasses of OSError).
PopenRaises == "OSError"

\* Watch.run for a command that cannot be spawned: Process.__init__ has
\* created the queue and the logger and logged 'Run command: ...' when
\* Popen raises; the exception leaves Process.__init__ and Watch.run.
SpawnFail(l, ign) ==
    /\ mpc = "idle"
    /\ log' = l
    /\ ignore_exceptions' = ign
    /\ queue' = <<>>
    /\ ProcessEmit(MasterLogger(l), Record(INFO, RunCommandMsg))
    /\ outcome' = Some(PopenRaises)
    /\ mpc' = "done"
    /\ UNCHANGED << raise_exceptions_arg, raise_exceptions, libVars, childVars, pipeClosed, rpc,
                    failed, nloop, returncode, reports >>

\* Process._start_thread, called for stdout and then for stderr.
StartThread(s) ==
    /\ mpc = "start_" \o s
    /\ rpc' = [rpc EXCEPT ![s] = "reading"]
    /\ mpc' = IF s = "stdout" THEN "start_stderr" ELSE "loop"
    /\ UNCHANGED << argVars, libVars, childVars, pipeClosed, failed, queue, nloop,
                    buffer, returncode, watchVars, processes, reports, outcome >>

(***************************************************************************)
(* The child: it writes lines to its two pipes and exits.  A write to a    *)
(* full pipe blocks until the reader has made room.                        *)
(***************************************************************************)
RECURSIVE NWrittenBy(_)
NWrittenBy(procs) ==
    IF procs = <<>> THEN 0
    ELSE Len(Head(procs).written["stdout"]) + Len(Head(procs).written["stderr"])
           + NWrittenBy(Tail(procs))

NWritten == Len(written["stdout"]) + Len(written["stderr"]) + Len(pending)
              + NWrittenBy(processes)

ChildWrite(s, line) ==
    /\ child = "running"
    /\ pending = None
    /\ NWritten < MaxWrites
    /\ ~pipeClosed[s]
    /\ IF Len(pipe[s]) < PipeCap
         THEN /\ pipe' = [pipe EXCEPT ![s] = Append(@, line)]
              /\ written' = [written EXCEPT ![s] = Append(@, line)]
              /\ UNCHANGED pending
         ELSE /\ pending' = Some(<<s, line>>)
              /\ UNCHANGED << pipe, written >>
    /\ UNCHANGED << argVars, libVars, mpc, child, exitStatus, pipeClosed, rpc, failed,
                    queue, nloop, buffer, returncode, watchVars, processes,
                    reports, outcome >>

\* The blocked write completes once the pipe has room.
ChildUnblock ==
    /\ pending # None
    /\ LET s == pending[1][1]
           line == pending[1][2]
       IN /\ ~pipeClosed[s]
          /\ Len(pipe[s]) < PipeCap
          /\ pipe' = [pipe EXCEPT ![s] = Append(@, line)]
          /\ written' = [written EXCEPT ![s] = Append(@, line)]
    /\ pending' = None
    /\ UNCHANGED << argVars, libVars, mpc, child, exitStatus, pipeClosed, rpc, failed,
                    queue, nloop, buffer, returncode, watchVars, processes,
                    reports, outcome >>

\* The blocked write fails (EPIPE) when the read end has been closed.
ChildEpipe ==
    /\ pending # None
    /\ pipeClosed[pending[1][1]]
    /\ pending' = None
    /\ UNCHANGED << argVars, libVars, mpc, child, exitStatus, written, pipe, pipeClosed,
                    rpc, failed, queue, nloop, buffer, returncode, watchVars,
                    processes, reports, outcome >>

\* The child exits with status rc; both write ends are closed with it.
ChildExit(rc) ==
    /\ child = "running"
    /\ pending = None
    /\ child' = "exited"
    /\ exitStatus' = Some(rc)
    /\ UNCHANGED << argVars, libVars, mpc, written, pipe, pipeClosed, pending, rpc,
                    failed, queue, nloop, buffer, returncode, watchVars,
                    processes, reports, outcome >>

(***************************************************************************)
(* Process._stdout_stderr_reader, one thread per stream.                   *)
(***************************************************************************)
\* Mutant: a LIFO queue.
QueuePutFront(q, item) == <<item>> \o q
\* queue.Queue.put
QueuePut(q, item) == Append(q, item)

\* Mutant: stderr is drained only after stdout has reached its end.
ReaderReadInTurn(s) ==
    /\ rpc[s] = "reading"
    /\ s = "stderr" => rpc["stdout"] = "done"
    /\ pipe[s] # <<>>
    /\ queue' = Append(queue, <<Head(pipe[s]), s>>)
    /\ pipe' = [pipe EXCEPT ![s] = Tail(@)]
    /\ UNCHANGED << argVars, libVars, mpc, child, exitStatus, written, pipeClosed,
                    pending, rpc, failed, nloop, buffer, returncode, watchVars,
                    processes, reports, outcome >>

\* Mutant: the stream is read only once the child has closed it.
ReaderReadAtEnd(s) ==
    /\ rpc[s] = "reading"
    /\ child = "exited"
    /\ pipe[s] # <<>>
    /\ queue' = Append(queue, <<Head(pipe[s]), s>>)
    /\ pipe' = [pipe EXCEPT ![s] = Tail(@)]
    /\ UNCHANGED << argVars, libVars, mpc, child, exitStatus, written, pipeClosed,
                    pending, rpc, failed, nloop, buffer, returncode, watchVars,
                    processes, reports, outcome >>

\* Mutant: the reader thread logs the line itself.
ReaderReadLogging(s) ==
    /\ rpc[s] = "reading"
    /\ pipe[s] # <<>>
    /\ queue' = queue
    /\ pipe' = [pipe EXCEPT ![s] = Tail(@)]
    /\ IF Strip(Head(pipe[s])) # <<>>
         THEN ProcessEmit(MasterLogger(log),
                          Record(LevelOf(s), Strip(Head(pipe[s]))))
         ELSE UNCHANGED << buffer, watchVars, processes >>
    /\ UNCHANGED << argVars, libVars, mpc, child, exitStatus, written, pipeClosed,
                    pending, rpc, failed, nloop, returncode, reports, outcome >>
\* One turn of `for line in iter(pipe.readline, b'')`: the line goes on the
\* queue with the stream's name.
ReaderRead(s) ==
    /\ rpc[s] = "reading"
    /\ pipe[s] # <<>>
    /\ queue' = QueuePut(queue, <<Head(pipe[s]), s>>)
    /\ pipe' = [pipe EXCEPT ![s] = Tail(@)]
    /\ UNCHANGED << argVars, libVars, mpc, child, exitStatus, written, pipeClosed,
                    pending, rpc, failed, nloop, buffer, returncode, watchVars,
                    processes, reports, outcome >>

\* readline() returns b'' at end of stream: the loop ends and `with` closes
\* the pipe.
ReaderEof(s) ==
    /\ rpc[s] = "reading"
    /\ pipe[s] = <<>>
    /\ child = "exited"
    /\ pipeClosed' = [pipeClosed EXCEPT ![s] = TRUE]
    /\ rpc' = [rpc EXCEPT ![s] = "finally"]
    /\ UNCHANGED << argVars, libVars, mpc, childVars, failed, queue, nloop, buffer,
                    returncode, watchVars, processes, reports, outcome >>

\* Mutant: no finally clause; a reader that raised just ends.
AfterRaiseNoFinally == "done"
\* The position a reader that raised goes to: the finally clause.
AfterRaise == "finally"

\* The reader raises: while entering the pipe context (the pipe is closed or
\* is no pipe; nothing has been read yet) or while reading a line (`with`
\* then closes the pipe).  Either way the pipe is closed afterwards.
ReaderFail(s) ==
    /\ rpc[s] = "reading"
    /\ failed' = [failed EXCEPT ![s] = TRUE]
    /\ pipeClosed' = [pipeClosed EXCEPT ![s] = TRUE]
    /\ rpc' = [rpc EXCEPT ![s] = AfterRaise]
    /\ UNCHANGED << argVars, libVars, mpc, childVars, queue, nloop, buffer, returncode,
                    watchVars, processes, reports, outcome >>

\* Mutant: the finally clause puts two sentinels.
ReaderFinallyTwice(s) ==
    /\ rpc[s] = "finally"
    /\ queue' = QueuePut(QueuePut(queue, None), None)
    /\ rpc' = [rpc EXCEPT ![s] = "done"]
    /\ UNCHANGED << argVars, libVars, mpc, childVars, pipeClosed, failed, nloop, buffer,
                    returncode, watchVars, processes, reports, outcome >>
\* finally: self._queue.put(None)
ReaderFinally(s) ==
    /\ rpc[s] = "finally"
    /\ queue' = QueuePut(queue, None)
    /\ rpc' = [rpc EXCEPT ![s] = "done"]
    /\ UNCHANGED << argVars, libVars, mpc, childVars, pipeClosed, failed, nloop, buffer,
                    returncode, watchVars, processes, reports, outcome >>

(***************************************************************************)
(* The consumer loop of Process.__init__:                                  *)
(*   for _ in range(2):                                                    *)
(*       for line, stream in iter(self._queue.get, None): ...              *)
(***************************************************************************)
ConsumerGet ==
    /\ mpc = "loop"
    /\ queue # <<>>
    /\ queue' = Tail(queue)
    /\ LET item == Head(queue) IN
       IF item = None
         THEN \* the inner loop ends; the outer loop takes its next turn
              /\ nloop' = nloop + 1
              /\ mpc' = IF nloop + 1 = NSentinels THEN "wait" ELSE "loop"
              /\ UNCHANGED << buffer, watchVars, processes, outcome >>
         ELSE IF ~Decodable(item[1])
                THEN \* line.decode('utf-8') raises UnicodeDecodeError, which
                     \* leaves Process.__init__ and Watch.run
                     /\ mpc' = "done"
                     /\ outcome' = Some("UnicodeDecodeError")
                     /\ UNCHANGED << nloop, buffer, watchVars, processes >>
                ELSE LET line == Strip(item[1]) IN
                     /\ IF line # <<>>
                          THEN ProcessEmit(MasterLogger(log),
                                           Record(LevelOf(item[2]), line))
                          ELSE UNCHANGED << buffer, watchVars, processes >>
                     /\ UNCHANGED << mpc, nloop, outcome >>
    /\ UNCHANGED << argVars, libVars, childVars, pipeClosed, rpc, failed,
                    returncode, reports >>

\* self.subprocess.wait(), then the 'Execution time: ...' entry.
ProcessWait ==
    /\ mpc = "wait"
    /\ child = "exited"
    /\ returncode' = exitStatus
    /\ ProcessEmit(MasterLogger(log), Record(INFO, ExecutionTimeMsg))
    /\ mpc' = "constructed"
    /\ UNCHANGED << argVars, libVars, childVars, pipeClosed, rpc, failed, queue,
                    nloop, reports, outcome >>

(***************************************************************************)
(* The rest of Watch.run: the Process is kept, and the return code decides *)
(* between raising CommandWatcherError (which reports status 2) and        *)
(* returning the Process.                                                  *)
(***************************************************************************)
\* Mutant: raise_exceptions is not consulted: any non-zero exit raises.
ShouldRaiseOnNonZero(raises, rc, ignored) == rc # 0
\* Mutant: ignore_exceptions is not consulted.
ShouldRaiseIgnoringList(raises, rc, ignored) == raises /\ rc # 0
\* The condition of the raise in Watch.run.
ShouldRaise(raises, rc, ignored) == raises /\ rc # 0 /\ rc \notin ignored

\* The Process just constructed: its subprocess.returncode, the buffer, the
\* logger and the master flag of its log_handler; and, for reference, what
\* its child wrote.
ThisProcess ==
    [returncode |-> returncode, buffer |-> buffer, logger |-> ProcessLogger,
     master |-> MasterLogger(log), written |-> written]

WatchRunEnd ==
    /\ mpc = "constructed"
    /\ processes' = Append(processes, ThisProcess)
    /\ IF ShouldRaise(raise_exceptions, returncode[1], ignore_exceptions)
         THEN /\ reports' = Append(reports,
                                  [status |-> 2,
                                   service_name |-> watches[Len(watches)].service_name,
                                   log_records |-> AllRecords(wbuffer),
                                   watch |-> Len(watches)])
              /\ delivered' = delivered \o Deliveries(channels, Len(reports) + 1)
              /\ outcome' = Some("CommandWatcherError")
         ELSE /\ outcome' = Some("Process")
              /\ UNCHANGED << reports, delivered >>
    /\ mpc' = "done"
    /\ UNCHANGED << argVars, history, conf, ret, channels, watches, childVars,
                    pipeClosed, rpc, failed, queue, nloop, buffer, returncode,
                    watchVars, capVars >>

\* Watch.run has returned or raised, and the caller calls it again: the
\* Process of the next call has its own queue, handler (an empty buffer),
\* child and reader threads.
RunAgain ==
    /\ mpc = "done"
    /\ Len(history) + 1 < MaxRuns
    /\ history' = Append(history, outcome[1])
    /\ mpc' = "idle"
    /\ child' = "none"
    /\ exitStatus' = None
    /\ written' = [s \in Streams |-> <<>>]
    /\ pipe' = [s \in Streams |-> <<>>]
    /\ pipeClosed' = [s \in Streams |-> FALSE]
    /\ pending' = None
    /\ rpc' = [s \in Streams |-> "unstarted"]
    /\ failed' = [s \in Streams |-> FALSE]
    /\ queue' = <<>>
    /\ nloop' = 0
    /\ buffer' = <<>>
    /\ returncode' = None
    /\ outcome' = None
    /\ UNCHANGED << argVars, watchVars, processes, reports, conf, ret,
                    reporterVars, capVars >>

(***************************************************************************)
(* The caller logs through Watch.log.                                      *)
(***************************************************************************)
UserLevels == {INFO, STDERR}

WatchLog(level, msg) ==
    /\ mpc = "idle"
    /\ Len(wemitted) < MaxEmits
    /\ WatchEmit(Record(level, msg))
    /\ UNCHANGED << argVars, libVars, mpc, childVars, pipeClosed, rpc, failed, queue,
                    nloop, buffer, returncode, processes, reports, outcome >>

\* The levels a caller can log at: the levels of the logging module, the
\* two pseudo-levels and two levels without a name.  (The logger's level
\* is 1, so that a record of level 0 is not handled.)
AllLevels == {STDOUT, 7, 10, INFO, 30, STDERR, 40, 45, 50}

\* The messages 'a' and 'bc'.
ViewMsgs == { <<97>>, <<98, 99>> }

\* The caller reads Watch.stdout and Watch.stderr.
WatchViews ==
    /\ mpc = "idle"
    /\ ret' = Some([buffer |-> wbuffer,
                    stdout |-> StdoutView(wbuffer),
                    stderr |-> StderrView(wbuffer)])
    /\ UNCHANGED << argVars, mpc, childVars, pipeClosed, rpc, failed, queue,
                    nloop, buffer, returncode, watchVars, processes, reports,
                    outcome, history, conf, reporterVars, capVars >>

(***************************************************************************)
(* Process.line_count_stdout and Process.line_count_stderr.                *)
(***************************************************************************)
\* The line boundaries of str.splitlines: \n, \v, \f, \r, \x1c, \x1d, \x1e,
\* \x85, U+2028 and U+2029.
LineBoundaries == {10, 11, 12, 13, 28, 29, 30, 133, 8232, 8233}

\* len(s.splitlines()): the text is cut after every line boundary, '\r\n'
\* being one boundary, and no empty line is counted after the last one.
RECURSIVE SplitLinesLen(_)
SplitLinesLen(s) ==
    IF s = <<>> THEN 0
    ELSE LET ends == {i \in 1..Len(s) : s[i] \in LineBoundaries} IN
         IF ends = {} THEN 1
         ELSE LET i == CHOOSE e \in ends : \A f \in ends : e <= f
                  next == IF s[i] = 13 /\ i < Len(s) /\ s[i + 1] = 10
                            THEN i + 2 ELSE i + 1
              IN 1 + SplitLinesLen(SubSeq(s, next, Len(s)))

\* The line 'a\rb\n': a carriage return inside the line, as a progress
\* display writes it.
ReturnLine == <<97, 13, 98, 10>>

\* Watch.run has returned the Process and the caller reads its
\* line_count_stdout and line_count_stderr.
ProcessLineCounts ==
    /\ mpc = "done"
    /\ outcome = Some("Process")
    /\ ret' = Some([buffer |-> buffer,
                    line_count_stdout |-> SplitLinesLen(StdoutView(buffer)),
                    line_count_stderr |-> SplitLinesLen(StderrView(buffer))])
    /\ UNCHANGED << argVars, mpc, childVars, pipeClosed, rpc, failed, queue,
                    nloop, buffer, returncode, watchVars, processes, reports,
                    outcome, history, conf, reporterVars, capVars >>

(***************************************************************************)
(* Further Watch objects, and Watch.report.                                *)
(***************************************************************************)
\* service_name: str = 'command_watcher'
ServiceNameDefault == "command_watcher"

\* A channel the caller made and passed in report_channels.
CustomChannel == Channel("custom", 0)

\* Watch(config_reader=..., service_name=..., report_channels=...): one more
\* Watch is constructed and is the current one from now on.  config is the
\* set of the channels whose section of the configuration passes its check.
NewWatch(config, report_channels, service_name) ==
    /\ mpc = "idle"
    /\ Len(watches) < MaxWatches
    /\ LET n == Len(watches) + 1
           logged == WatchInitRecords(config, report_channels, n)
       IN /\ watches' = Append([watches EXCEPT ![n - 1].buffer = wbuffer,
                                               ![n - 1].processes = processes],
                               WatchObject(config, report_channels,
                                           service_name))
          /\ channels' = ReporterChannels(channels, config, report_channels, n)
          /\ wbuffer' = logged
          /\ wemitted' = logged
          /\ term' = [term EXCEPT !["stdout"] = @ \o logged]
    /\ processes' = <<>>
    /\ UNCHANGED << argVars, mpc, childVars, pipeClosed, rpc, failed, queue, nloop,
                    buffer, returncode, reports, outcome, history, conf, ret,
                    delivered, capVars >>

\* watch.report(status) on the i-th Watch: reporter.report makes the Message
\* and hands it to every channel; then the Watch logs the Message at the
\* level DEBUG.  (watch: the Watch that issued the report, for reference.)
WatchReport(i, status) ==
    /\ mpc = "idle"
    /\ Len(reports) < MaxReports
    /\ i \in 1..Len(watches)
    /\ LET current == i = Len(watches)
           buf == IF current THEN wbuffer ELSE watches[i].buffer
           rec == Record(DEBUG, MessageMsg)
       IN /\ reports' = Append(reports,
                               [status |-> status,
                                service_name |-> watches[i].service_name,
                                log_records |-> AllRecords(buf),
                                watch |-> i])
          /\ delivered' = delivered \o Deliveries(channels, Len(reports) + 1)
          /\ IF current
               THEN WatchEmit(rec) /\ UNCHANGED watches
               ELSE /\ watches' = [watches EXCEPT ![i].buffer = EmitBuffer(@, rec)]
                    /\ term' = PrintRecord(term, rec)
                    /\ UNCHANGED << wbuffer, wemitted >>
    /\ UNCHANGED << argVars, mpc, childVars, pipeClosed, rpc, failed, queue,
                    nloop, buffer, returncode, processes, outcome, history,
                    conf, ret, channels, capVars >>

(***************************************************************************)
(* jflib.config_reader.  The names of sections and keys are tuples of code *)
(* points (45 = '-', 95 = '_'); a value is a string, PyNone standing for   *)
(* Python's None.  What a reader holds is given per (section, key); how    *)
(* each reader names the pair (attribute of the argparse namespace,        *)
(* environment variable, nested key) is not modelled.                      *)
(***************************************************************************)
PyNone == "<None>"

\* The sections 's' and 't' and the keys 'k' and 'k-'.
SecS == <<115>>
SecT == <<116>>
KeyK == <<107>>
KeyDash == <<107, 45>>

\* Mutant: any name is accepted.
ValidateAny(key) == TRUE
\* validate_key: re.match(r'^[a-zA-Z0-9_]+$', key); `$` also matches before
\* a newline that ends the name.  FALSE stands for the ValueError.
ValidateKey(key) ==
    LET name == IF key # <<>> /\ key[Len(key)] = 10
                  THEN SubSeq(key, 1, Len(key) - 1)
                  ELSE key
    IN /\ name # <<>>
       /\ \A i \in 1..Len(name) :
             name[i] \in (48..57) \cup (65..90) \cup (97..122) \cup {95}

\* What a call returned or raised.
Return(v) == [exc |-> "", val |-> v]
Raise(e) == [exc |-> e, val |-> ""]

\* reader.get(section, key) of the reader classes: Some(value), or None for
\* ConfigValueError.  ArgparseReader takes an attribute that is None for
\* missing; SpecReader reads spec[section][key]['default'].
ReaderGet(reader, section, key) ==
    CASE reader.kind = "argparse" ->
           IF /\ <<section, key>> \in DOMAIN reader.data
              /\ reader.data[<<section, key>>] # PyNone
             THEN Some(reader.data[<<section, key>>])
             ELSE None
      [] reader.kind = "spec" ->
           IF /\ section \in DOMAIN reader.data
              /\ key \in DOMAIN reader.data[section]
             THEN reader.data[section][key].default
             ELSE None
      [] OTHER ->
           IF <<section, key>> \in DOMAIN reader.data
             THEN Some(reader.data[<<section, key>>])
             ELSE None

\* Mutant: the readers are tried from the last to the first.
RECURSIVE FirstValueFromLast(_, _, _)
FirstValueFromLast(readers, section, key) ==
    IF readers = <<>> THEN Raise("ValueError")
    ELSE LET last == readers[Len(readers)] IN
         IF ReaderGet(last, section, key) # None
           THEN Return(ReaderGet(last, section, key)[1])
           ELSE FirstValueFromLast(SubSeq(readers, 1, Len(readers) - 1),
                                   section, key)
\* The loop of ReaderSelector.get: the value of the first reader that does
\* not raise ConfigValueError, ValueError after the last.
RECURSIVE FirstValue(_, _, _)
FirstValue(readers, section, key) ==
    IF readers = <<>> THEN Raise("ValueError")
    ELSE IF ReaderGet(Head(readers), section, key) # None
           THEN Return(ReaderGet(Head(readers), section, key)[1])
           ELSE FirstValue(Tail(readers), section, key)

\* ReaderSelector.get
SelectorGet(readers, section, key) ==
    IF ~ValidateKey(section) \/ ~ValidateKey(key)
      THEN Raise("ValueError")
      ELSE FirstValue(readers, section, key)

\* load_readers_by_keyword as ConfigReader.__init__ calls it: the readers of
\* the keywords in the order they were passed, then the SpecReader if spec
\* is not empty.
LoadReaders(kwargs, spec) ==
    kwargs \o (IF spec # <<>> THEN << [kind |-> "spec", data |-> spec] >>
                              ELSE <<>>)

\* ConfigReader(spec=spec, **kwargs)
ConfigReaderInit(spec, kwargs) ==
    /\ conf = None
    /\ conf' = Some([spec |-> spec, readers |-> LoadReaders(kwargs, spec)])
    /\ UNCHANGED << argVars, mpc, childVars, pipeClosed, rpc, failed, queue,
                    nloop, buffer, returncode, watchVars, processes, reports,
                    outcome, history, ret, reporterVars, capVars >>

\* config_reader.reader.get(section, key)
ConfigGet(section, key) ==
    /\ conf # None
    /\ ret' = Some([op |-> "get", section |-> section, key |-> key,
                    res |-> SelectorGet(conf[1].readers, section, key)])
    /\ UNCHANGED << argVars, mpc, childVars, pipeClosed, rpc, failed, queue,
                    nloop, buffer, returncode, watchVars, processes, reports,
                    outcome, history, conf, reporterVars, capVars >>

\* `not value`
Falsy(value) == value \in {"", PyNone}

\* Mutant: a key that cannot be resolved is passed over.
RECURSIVE CheckKeysLenient(_, _, _, _)
CheckKeysLenient(readers, spec, section, keys) ==
    IF keys = {} THEN Return("True")
    ELSE LET key == CHOOSE k \in keys : TRUE
             res == SelectorGet(readers, section, key)
         IN IF /\ res.exc = ""
               /\ spec[section][key].not_empty = Some(TRUE)
               /\ Falsy(res.val)
              THEN Raise("ValueError")
              ELSE CheckKeysLenient(readers, spec, section, keys \ {key})
\* The loop of check_section over spec[section].items(): the ValueError of
\* reader.get leaves it, and so does the ValueError for an empty value of a
\* key whose spec has a true 'not_empty'.
RECURSIVE CheckKeys(_, _, _, _)
CheckKeys(readers, spec, section, keys) ==
    IF keys = {} THEN Return("True")
    ELSE LET key == CHOOSE k \in keys : TRUE
             res == SelectorGet(readers, section, key)
         IN IF res.exc # "" THEN res
            ELSE IF /\ spec[section][key].not_empty = Some(TRUE)
                    /\ Falsy(res.val)
                   THEN Raise("ValueError")
                   ELSE CheckKeys(readers, spec, section, keys \ {key})

\* ConfigReader.check_section(section)
CheckSection(section) ==
    /\ conf # None
    /\ ret' = Some([op |-> "check_section", section |-> section, key |-> <<>>,
                    res |-> IF section \notin DOMAIN conf[1].spec
                              THEN Raise("KeyError")
                              ELSE CheckKeys(conf[1].readers, conf[1].spec,
                                             section,
                                             DOMAIN conf[1].spec[section])])
    /\ UNCHANGED << argVars, mpc, childVars, pipeClosed, rpc, failed, queue,
                    nloop, buffer, returncode, watchVars, processes, reports,
                    outcome, history, conf, reporterVars, capVars >>

(***************************************************************************)
(* jflib.capturing.Capturing, a list of the captured lines.                *)
(***************************************************************************)
\* The text 'a' in red, as cprint writes it: '\x1b[31ma\x1b[0m\n'.
ColourLine == <<27, 91, 51, 49, 109, 97, 27, 91, 48, 109, 10>>

\* StringIO.getvalue(): everything written, in order.
RECURSIVE GetValue(_)
GetValue(chunks) ==
    IF chunks = <<>> THEN <<>> ELSE Head(chunks) \o GetValue(Tail(chunks))

\* s.splitlines(): the lines of s without their line boundaries.
RECURSIVE SplitLines(_)
SplitLines(s) ==
    IF s = <<>> THEN <<>>
    ELSE LET ends == {i \in 1..Len(s) : s[i] \in LineBoundaries} IN
         IF ends = {} THEN << s >>
         ELSE LET i == CHOOSE e \in ends : \A f \in ends : e <= f
                  next == IF s[i] = 13 /\ i < Len(s) /\ s[i + 1] = 10
                            THEN i + 2 ELSE i + 1
              IN << SubSeq(s, 1, i - 1) >> \o SplitLines(SubSeq(s, next, Len(s)))

\* Capturing._clean_ansi: re.sub(r"\x1b.*?m", "", text) removes every run from
\* an escape character to the next 'm' of its line.
RECURSIVE CleanAnsi(_)
CleanAnsi(text) ==
    IF text = <<>> THEN <<>>
    ELSE LET ms == {j \in 2..Len(text) :
                        /\ text[j] = 109
                        /\ \A k \in 2..(j - 1) : text[k] # 10 /\ text[k] # 109}
         IN IF text[1] = 27 /\ ms # {}
              THEN CleanAnsi(SubSeq(text, (CHOOSE j \in ms : TRUE) + 1, Len(text)))
              ELSE << text[1] >> \o CleanAnsi(Tail(text))

\* with Capturing(stream, clean_ansi) as output: __init__ rejects a stream
\* name other than stdout and stderr; __enter__ keeps the object in place
\* of the selected stream in _pipe and puts a new StringIO in its place.
\* (before: sys.stdout and sys.stderr when the block was entered, for
\* reference; output: the list the object is.)
CapturingEnter(stream, clean_ansi) ==
    /\ Len(blocks) < MaxBlocks
    /\ Len(io) < Cardinality(Streams) + MaxCaptures
    /\ IF stream \notin Streams
         THEN /\ ret' = Some([output |-> <<>>, exc |-> "ValueError"])
              /\ UNCHANGED capVars
         ELSE /\ blocks' = Append(blocks,
                                  [stream |-> stream,
                                   clean_ansi |-> clean_ansi,
                                   pipe |-> sys[stream],
                                   stringio |-> StringIO(Len(io) + 1),
                                   output |-> <<>>,
                                   before |-> sys])
              /\ sys' = [sys EXCEPT ![stream] = StringIO(Len(io) + 1)]
              /\ io' = Append(io, <<>>)
              /\ UNCHANGED ret
    /\ UNCHANGED << argVars, mpc, childVars, pipeClosed, rpc, failed, queue,
                    nloop, buffer, returncode, watchVars, processes, reports,
                    outcome, history, conf, reporterVars >>

\* print(text, file=sys.stdout) or print(text, file=sys.stderr): the text goes
\* to the object that is in the place of the stream.
PrintTo(stream, text) ==
    /\ Len(io[sys[stream].n]) < MaxPrints
    /\ io' = [io EXCEPT ![sys[stream].n] = Append(@, text)]
    /\ UNCHANGED << argVars, mpc, childVars, pipeClosed, rpc, failed, queue,
                    nloop, buffer, returncode, watchVars, processes, reports,
                    outcome, history, conf, ret, reporterVars, sys, blocks >>

\* Mutant: a block left by an exception does not put the stream back.
CapturingExitForgetful(exc) ==
    /\ blocks # <<>>
    /\ LET self == blocks[Len(blocks)]
           value == GetValue(io[self.stringio.n])
           output == IF self.clean_ansi THEN CleanAnsi(value) ELSE value
       IN /\ ret' = Some([output |-> self.output \o SplitLines(output),
                          exc |-> exc])
          /\ io' = [io EXCEPT ![self.stringio.n] = <<>>]
          /\ sys' = IF exc = "" THEN [sys EXCEPT ![self.stream] = self.pipe]
                                ELSE sys
    /\ blocks' = SubSeq(blocks, 1, Len(blocks) - 1)
    /\ UNCHANGED << argVars, mpc, childVars, pipeClosed, rpc, failed, queue,
                    nloop, buffer, returncode, watchVars, processes, reports,
                    outcome, history, conf, reporterVars >>
\* The innermost with block ends, normally (exc = "") or by the exception
\* exc: __exit__ extends the list by the captured lines, deletes the
\* StringIO and puts the object kept in _pipe back in the place of the
\* selected stream; it returns None, so that the exception goes on.
CapturingExit(exc) ==
    /\ blocks # <<>>
    /\ LET self == blocks[Len(blocks)]
           value == GetValue(io[self.stringio.n])
           output == IF self.clean_ansi THEN CleanAnsi(value) ELSE value
       IN /\ ret' = Some([output |-> self.output \o SplitLines(output),
                          exc |-> exc])
          /\ io' = [io EXCEPT ![self.stringio.n] = <<>>]
          /\ sys' = [sys EXCEPT ![self.stream] = self.pipe]
    /\ blocks' = SubSeq(blocks, 1, Len(blocks) - 1)
    /\ UNCHANGED << argVars, mpc, childVars, pipeClosed, rpc, failed, queue,
                    nloop, buffer, returncode, watchVars, processes, reports,
                    outcome, history, conf, reporterVars >>

(***************************************************************************)
(* Specifications.                                                         *)
(***************************************************************************)
MainStep == \/ \E s \in Streams : StartThread(s)
            \/ ConsumerGet
            \/ ProcessWait
            \/ WatchRunEnd

ReaderStep(s) == ReaderRead(s) \/ ReaderEof(s) \/ ReaderFinally(s)

ChildStep(lines, codes) ==
    \/ \E s \in Streams, line \in lines : ChildWrite(s, line)
    \/ ChildUnblock
    \/ \E rc \in codes : ChildExit(rc)

Step(lines, codes, logs, ignores) ==
    \/ \E l \in logs, ign \in ignores : WatchRun(l, ign)
    \/ MainStep
    \/ \E s \in Streams : ReaderStep(s)
    \/ ChildStep(lines, codes)

\* Watch(...) and run(args) with the default arguments (raise_exceptions=True,
\* log=True, ignore_exceptions=[]); the child writes text.
Init == InitWith({None})
Next == Step(TextLines, {0, 1}, {TRUE}, {{}})
Spec == Init /\ [][Next]_vars

\* Every combination of raise_exceptions, log, ignore_exceptions and exit
\* status; the child writes the line 'a'.
WatchInit == InitWith({None, Some(TRUE), Some(FALSE)})
WatchNext == Step({LineA}, ExitCodes, BOOLEAN, IgnoreLists)
WatchSpec == WatchInit /\ [][WatchNext]_vars

\* The child may write a line that is not UTF-8.
BytesNext == Step({LineA, BinaryLine}, {0, 1}, {TRUE}, {{}})
BytesSpec == Init /\ [][BytesNext]_vars

\* The caller logs through Watch.log; no run.
EmitNext == \E level \in UserLevels : WatchLog(level, Strip(LineA))
EmitSpec == Init /\ [][EmitNext]_vars

\* The caller logs records of any level and reads the two views.
ViewNext ==
    \/ \E level \in AllLevels, msg \in ViewMsgs :
          Len(wbuffer) < MaxViewLen + 1 /\ WatchLog(level, msg)
    \/ WatchViews
ViewSpec == Init /\ [][ViewNext]_vars

\* Fair scheduling of the calling thread and of the two reader threads.
FairThreads ==
    /\ WF_vars(MainStep)
    /\ \A s \in Streams : WF_vars(ReaderStep(s))

\* The child goes on to its exit; threads are scheduled fairly.
FairNext == Step({LineA}, {0, 1}, {TRUE}, {{}})
FairSpec ==
    /\ Init /\ [][FairNext]_vars
    /\ FairThreads
    /\ WF_vars(ChildStep({LineA}, {0, 1}))

\* The child may stop writing and never exit; threads are scheduled fairly.
LiveNext == Step({LineA, BlankLine}, {0}, {TRUE}, {{}})
LiveSpec == Init /\ [][LiveNext]_vars /\ FairThreads

\* A reader thread may raise; the child goes on to its exit (a write to a
\* closed pipe fails); threads are scheduled fairly.
FaultNext ==
    \/ FairNext
    \/ \E s \in Streams : ReaderFail(s)
    \/ ChildEpipe
FaultSpec ==
    /\ Init /\ [][FaultNext]_vars
    /\ FairThreads
    /\ WF_vars(ChildStep({LineA}, {0, 1}) \/ ChildEpipe)

\* Several calls of run on one default Watch, with log=True or log=False,
\* for commands that write the line 'a' and exit with 0 and for commands
\* that cannot be spawned.
RunsInit == InitWith({None})
RunsNext ==
    \/ Step({LineA}, {0}, BOOLEAN, {{}})
    \/ \E l \in BOOLEAN : SpawnFail(l, {})
    \/ RunAgain
RunsSpec == RunsInit /\ [][RunsNext]_vars

\* The data a reader can hold: a value for some of the pairs.
DataOver(pairs, values) == UNION { [ps -> values] : ps \in SUBSET pairs }
\* The readers of the keywords `kinds`: a reader's value is the name of its
\* keyword (as in test_argparse_first) or one of `others`.
ReadersOf(kinds, pairs, others) ==
    UNION { { [kind |-> kind, data |-> d] :
                d \in DataOver(pairs, {kind} \cup others) } : kind \in kinds }
\* The keyword arguments of one ConfigReader call: at most MaxReaders
\* keywords in some order, a keyword at most once.
Keywords(readers) ==
    { kw \in UNION { [1..n -> readers] : n \in 0..MaxReaders } :
        \A i, j \in 1..Len(kw) : kw[i].kind = kw[j].kind => i = j }
\* The spec dictionaries: empty, or the section 's' with some of `keys`,
\* each with or without a 'default' and a 'not_empty' entry.
SpecsOver(keys, defaults, flags) ==
    { <<>> } \cup
    { [section \in {SecS} |-> value_specs] :
        value_specs \in UNION { [ks -> [default : defaults, not_empty : flags]] :
                                 ks \in SUBSET keys } }

\* Reading values: readers of all four keywords, an argparse attribute may
\* be None, the spec gives defaults.
ConfigReaders ==
    ReadersOf({"dictionary", "environ", "ini"},
              {<<SecS, KeyK>>, <<SecS, KeyDash>>}, {})
    \cup ReadersOf({"argparse"}, {<<SecS, KeyK>>, <<SecS, KeyDash>>},
                   {PyNone})
ConfigNext ==
    \/ /\ conf = None
       /\ \E spec \in SpecsOver({KeyK, KeyDash}, {None, Some("spec")}, {None}),
             kwargs \in Keywords(ConfigReaders) :
               ConfigReaderInit(spec, kwargs)
    \/ \E section \in {SecS, SecT}, key \in {KeyK, KeyDash} :
          ConfigGet(section, key)
ConfigSpec == Init /\ [][ConfigNext]_vars

\* Checking a section: values may be empty, keys may be marked not_empty.
CheckReaders ==
    ReadersOf({"dictionary", "environ"},
              {<<SecS, KeyK>>, <<SecS, KeyDash>>}, {""})
CheckNext ==
    \/ /\ conf = None
       /\ \E spec \in SpecsOver({KeyK, KeyDash},
                               {None, Some(""), Some("spec")},
                               {None, Some(TRUE), Some(FALSE)}),
             kwargs \in Keywords(CheckReaders) :
               ConfigReaderInit(spec, kwargs)
    \/ \E section \in {SecS, SecT} : CheckSection(section)
CheckSpec == Init /\ [][CheckNext]_vars

\* Runs of children whose lines may hold a carriage return, and the line
\* counts of the Process read afterwards.
CountNext == Step({LineA, ReturnLine}, {0}, {TRUE}, {{}}) \/ ProcessLineCounts
CountSpec == Init /\ [][CountNext]_vars

\* A Watch with the e-mail channel: the caller logs and reports.
ReportInit == InitWatch({None}, {{"email"}}, {None})
ReportNext ==
    \/ \E level \in {STDOUT, INFO, STDERR}, msg \in ViewMsgs :
          Len(wemitted) < MaxViewLen + 1 /\ WatchLog(level, msg)
    \/ \E status \in {0, 2} : WatchReport(Len(watches), status)
ReportSpec == ReportInit /\ [][ReportNext]_vars

\* Several Watch objects in one interpreter, constructed from a
\* configuration or with report_channels, and reports through any of them.
ChannelInit ==
    InitWatch({None}, SUBSET {"email", "icinga"},
              {None, Some(<<>>), Some(<< CustomChannel >>)})
ChannelNext ==
    \/ \E config \in SUBSET {"email", "icinga"},
          report_channels \in {None, Some(<<>>), Some(<< CustomChannel >>)} :
          NewWatch(config, report_channels, ServiceNameDefault)
    \/ \E i \in 1..MaxWatches : WatchReport(i, 0)
ChannelSpec == ChannelInit /\ [][ChannelNext]_vars

\* Runs through a Watch that has registered the e-mail and the Icinga
\* channel.
AlarmInit == InitWatch({None}, {{"email", "icinga"}}, {None})
AlarmNext == Step({LineA}, {0, 1}, BOOLEAN, IgnoreLists)
AlarmSpec == AlarmInit /\ [][AlarmNext]_vars

\* with Capturing(...) blocks, nested up to MaxBlocks deep, around prints to
\* both streams; a block ends normally or by an exception.
CaptureNext ==
    \/ \E stream \in Streams \cup {"stdin"}, clean_ansi \in BOOLEAN :
          CapturingEnter(stream, clean_ansi)
    \/ \E stream \in Streams : PrintTo(stream, ColourLine)
    \/ \E exc \in {"", "KeyError"} : CapturingExit(exc)
CaptureSpec == Init /\ [][CaptureNext]_vars

(***************************************************************************)
(* Properties.                                                             *)
(***************************************************************************)
\* The Process constructor has returned.
ProcessReturned ==
    \/ mpc = "constructed"
    \/ mpc = "done" /\ outcome \in {Some("Process"), Some("CommandWatcherError")}

\* The records of captured lines in a buffer.
StreamRecords(buf) == SelectSeq(buf, LAMBDA r : r.level \in {STDOUT, STDERR})

IsBlank(line) == \A i \in 1..Len(line) : IsSpace(line[i])

\* What is to be recorded for a sequence of lines: the trimmed text of every
\* line that is not blank, in order.
RECURSIVE Recordable(_)
Recordable(lines) ==
    IF lines = <<>> THEN <<>>
    ELSE IF IsBlank(Head(lines))
         THEN Recordable(Tail(lines))
         ELSE <<Strip(Head(lines))>> \o Recordable(Tail(lines))

IsPrefix(p, q) == Len(p) <= Len(q) /\ SubSeq(q, 1, Len(p)) = p

\* C1: the Process constructor never returns before both reader threads have
\* put their sentinel and the child has exited: once it has returned, both
\* readers are finished, nothing is left in the queue or the pipes,
\* subprocess.returncode is set (the child's exit status), and no step adds
\* or removes a STDOUT or STDERR record of the process buffer.
C1_ReturnAfterSentinelsAndExit ==
    /\ [](ProcessReturned =>
            /\ \A s \in Streams : rpc[s] = "done" /\ pipe[s] = <<>>
            /\ queue = <<>>
            /\ child = "exited"
            /\ returncode # None
            /\ returncode = exitStatus)
    /\ [][ProcessReturned => StreamRecords(buffer') = StreamRecords(buffer)]_vars

\* C1 witness: the constructor has returned after a child wrote to both
\* streams and exited with status 1.
C1_Witness ==
    /\ ProcessReturned
    /\ written["stdout"] # <<>>
    /\ written["stderr"] # <<>>
    /\ returncode = Some(1)

\* C2: when the run returns, the process buffer holds exactly one record for
\* each non-blank line the child wrote, a stdout line at level STDOUT (5) and
\* a stderr line at level STDERR (35), besides the run's two INFO entries:
\* none dropped, none duplicated, none under the other stream's level.
C2_OneRecordPerLine ==
    ProcessReturned =>
        /\ Messages(buffer, 5) = Recordable(written["stdout"])
        /\ Messages(buffer, 35) = Recordable(written["stderr"])
        /\ Len(buffer) = 2 + Len(Recordable(written["stdout"]))
                           + Len(Recordable(written["stderr"]))

\* C2 witness: a run has returned whose child wrote two non-blank lines to
\* one stream and one to the other.
C2_Witness ==
    /\ ProcessReturned
    /\ \E s, u \in Streams :
          /\ s # u
          /\ Len(Recordable(written[s])) = 2
          /\ Len(Recordable(written[u])) = 1

\* C3: in every state, the STDOUT records of the process buffer are, in
\* order, the first of the non-blank lines the child wrote to stdout, and the
\* STDERR records the first of those it wrote to stderr.
C3_OrderWithinStream ==
    /\ IsPrefix(Messages(buffer, 5), Recordable(written["stdout"]))
    /\ IsPrefix(Messages(buffer, 35), Recordable(written["stderr"]))

\* C3 witness: two different lines of one stream are recorded with a record
\* of the other stream between them.
C3_Witness ==
    \E i, j, k \in 1..Len(buffer) :
        /\ i < j /\ j < k
        /\ buffer[i].level = 5 /\ buffer[j].level = 35 /\ buffer[k].level = 5
        /\ buffer[i].msg # buffer[k].msg

\* Sentinels put on the queue so far: those the consumer has taken and
\* those still queued.
SentinelsPut == nloop + Len(SelectSeq(queue, LAMBDA item : item = None))

\* Watch.run has ended by returning the Process or by raising
\* CommandWatcherError: the run of the child is over.
RunReturned ==
    mpc = "done" /\ outcome \in {Some("Process"), Some("CommandWatcherError")}

\* C4: a reader thread that raises still puts exactly one sentinel: at any
\* time the queue has received one sentinel per finished reader, raised or
\* not, and no more; and once a reader has raised, the consumer loop still
\* ends and the run returns (specification FaultSpec: fair threads, a child
\* that goes on to its exit).
C4_SentinelAfterRaise ==
    /\ [](SentinelsPut = Cardinality({s \in Streams : rpc[s] = "done"}))
    /\ \A s \in Streams : failed[s] ~> (rpc[s] = "done" /\ RunReturned)

\* C4 witness: the run has returned although both reader threads raised, one
\* of them before it read the line the child had written.
C4_Witness ==
    /\ RunReturned
    /\ \A s \in Streams : failed[s]
    /\ \E s \in Streams : pipe[s] # <<>>

\* C5: once the child is started, the run returns, under fair scheduling of
\* the threads and for a child that goes on to its exit, whatever it writes
\* to which stream in which order and however often it blocks on a full
\* pipe (specification FairSpec).
C5_RunEventuallyReturns == (child = "running") ~> RunReturned

\* C5 witness: the child is blocked in a write to the full stderr pipe while
\* it has written nothing to stdout, which is still open.
C5_Witness ==
    /\ pending # None
    /\ pending[1][1] = "stderr"
    /\ written["stdout"] = <<>>
    /\ rpc["stdout"] = "reading"
    /\ Len(written["stderr"]) = PipeCap

\* C6 (as claimed): a line that is not valid UTF-8 is never fatal: the run
\* does not end with a decoding error.
C6_UndecodableLineNotFatal == outcome # Some("UnicodeDecodeError")

\* C7 (as claimed): the buffer is append-only: it holds every record emitted
\* to the handler so far, in order.
C7_BufferAppendOnly == wbuffer = wemitted

\* C8: a blank line (only whitespace and the terminator) appends no record
\* and stops neither the reader nor the consumer: the step by which the
\* consumer takes it leaves the buffer as it was and the consumer in its
\* loop; a reader has read its pipe empty when it ends; and when the run
\* returns each stream has as many records as the child wrote non-blank
\* lines to it, those after a blank line included.
C8_BlankLineSkipped ==
    /\ [][(/\ mpc = "loop"
           /\ queue # <<>>
           /\ Head(queue) # None
           /\ IsBlank(Head(queue)[1])
           /\ queue' = Tail(queue))
          => (buffer' = buffer /\ mpc' = "loop" /\ nloop' = nloop)]_vars
    /\ [](\A s \in Streams : rpc[s] = "done" => pipe[s] = <<>>)
    /\ [](ProcessReturned =>
            /\ Len(Messages(buffer, 5)) = Len(Recordable(written["stdout"]))
            /\ Len(Messages(buffer, 35)) = Len(Recordable(written["stderr"])))

\* C8 witness: the run has returned with the record of a line that the child
\* wrote after a blank line on the same stream.
C8_Witness ==
    /\ ProcessReturned
    /\ \E s \in Streams :
          /\ Len(written[s]) >= 2
          /\ IsBlank(written[s][1])
          /\ ~IsBlank(written[s][Len(written[s])])
          /\ Messages(buffer, LevelOf(s)) # <<>>

\* The number of records of the level of stream s that were printed to the
\* real stream of that name.
Printed(s) == Len(Messages(term[s], LevelOf(s)))

\* C9: every non-blank line the child has written is eventually in the
\* buffer and printed, under fair scheduling of the threads alone: the child
\* need not write again, close a stream or exit (specification LiveSpec).
\* Again and again, all the non-blank lines written so far are recorded.
C9_LinesSurface ==
    []<>(\A s \in Streams :
            /\ Len(Messages(buffer, LevelOf(s))) >= Len(Recordable(written[s]))
            /\ Printed(s) >= Len(Recordable(written[s])))

\* C9 witness: a line is in the buffer and printed while the child is still
\* running and both pipes are open.
C9_Witness ==
    /\ child = "running"
    /\ \A s \in Streams : rpc[s] = "reading"
    /\ \E s \in Streams : Messages(buffer, LevelOf(s)) # <<>> /\ Printed(s) >= 1

\* C10: once the Process is constructed, Watch.run ends with
\* CommandWatcherError exactly if raise_exceptions is true and the return
\* code is neither 0 nor in ignore_exceptions; otherwise it returns the
\* Process, whose returncode is the child's exit status.  Nothing else
\* raises CommandWatcherError.
C10_RaiseIffNonZeroNotIgnored ==
    LET rc == exitStatus[1]
        raising == /\ raise_exceptions
                   /\ rc # 0
                   /\ rc \notin ignore_exceptions
    IN /\ outcome = Some("CommandWatcherError") => mpc = "done"
       /\ RunReturned =>
            /\ outcome = IF raising THEN Some("CommandWatcherError")
                                    ELSE Some("Process")
            /\ processes[Len(processes)].returncode = Some(rc)

\* C10 witness: run raised for exit status 2 with ignore_exceptions=[1].
C10_Witness ==
    /\ outcome = Some("CommandWatcherError")
    /\ exitStatus = Some(2)
    /\ ignore_exceptions = {1}

\* The child of the run wrote one line, to stderr, and exited with status 1,
\* and the run has ended.
OneStderrLineExitOne ==
    /\ mpc = "done"
    /\ exitStatus = Some(1)
    /\ written["stdout"] = <<>>
    /\ Len(written["stderr"]) = 1
    /\ ~IsBlank(written["stderr"][1])

\* C11 (as claimed): a non-zero exit is not an error of run unless the
\* caller opted in: a run whose child wrote one line to stderr and exited 1
\* has exit status 1 and a STDERR view equal to that line, and it raises
\* only if the caller passed raise_exceptions=True.
C11_NonZeroExitIsData ==
    OneStderrLineExitOne =>
        /\ returncode = Some(1)
        /\ StderrView(buffer) = Strip(written["stderr"][1])
        /\ outcome = Some("CommandWatcherError")
             => raise_exceptions_arg = Some(TRUE)
        /\ raise_exceptions_arg # Some(TRUE) => outcome = Some("Process")

\* C11 (amended): raising is the default and the caller opts out: a run
\* whose child wrote one line to stderr and exited 1 constructs a Process
\* with exit status 1 and a STDERR view equal to that line, which is kept
\* in Watch.processes; it hands the Process back if raise_exceptions is
\* false or 1 is in ignore_exceptions, and raises CommandWatcherError
\* otherwise (raise_exceptions defaults to true).
C11_NonZeroExitIsDataUnlessRaising ==
    OneStderrLineExitOne =>
        /\ processes # <<>>
        /\ processes[Len(processes)].returncode = Some(1)
        /\ StderrView(processes[Len(processes)].buffer)
             = Strip(written["stderr"][1])
        /\ StdoutView(processes[Len(processes)].buffer) = <<>>
        /\ (outcome = Some("Process"))
             <=> (~raise_exceptions \/ 1 \in ignore_exceptions)
        /\ (outcome = Some("CommandWatcherError"))
             <=> (raise_exceptions /\ 1 \notin ignore_exceptions)

\* C11 witness: with raise_exceptions=False the run has handed back the
\* Process of a child that wrote one line to stderr and exited 1.
C11_Witness ==
    /\ OneStderrLineExitOne
    /\ raise_exceptions_arg = Some(FALSE)
    /\ ignore_exceptions = {}
    /\ outcome = Some("Process")

\* C12: a command that cannot be spawned makes Watch.run end with the error
\* Popen raised: the call that ends without a child ends with that error,
\* never by handing back a Process, and it leaves Watch.processes as it
\* was.
C12_SpawnFailureSurfaces ==
    /\ []((mpc = "done" /\ child = "none") => outcome = Some("OSError"))
    /\ [][(mpc = "idle" /\ mpc' = "done")
            => /\ outcome' = Some("OSError")
               /\ processes' = processes]_vars

\* C12 witness: after a run that gave a Process, a second call has failed
\* to spawn its child and Watch.processes still holds that one Process.
C12_Witness ==
    /\ mpc = "done"
    /\ outcome = Some("OSError")
    /\ history = << "Process" >>
    /\ Len(processes) = 1

\* The records of a buffer are those of one run: the 'Run command' entry,
\* one record per non-blank line of written, at its stream's level and in
\* the stream's order, and the 'Execution time' entry; nothing else.
OwnRecords(buf, lines) ==
    /\ Messages(buf, STDOUT) = Recordable(lines["stdout"])
    /\ Messages(buf, STDERR) = Recordable(lines["stderr"])
    /\ Messages(buf, INFO) = << RunCommandMsg, ExecutionTimeMsg >>
    /\ Len(buf) = 2 + Len(Recordable(lines["stdout"]))
                    + Len(Recordable(lines["stderr"]))

LevelMessages(buf, levelno) ==
    LET sel == SelectSeq(buf, LAMBDA r : r.level = levelno)
    IN [k \in 1..Len(sel) |-> sel[k].msg]

\* Where the k-th of the messages starts in their join by one character.
RECURSIVE Offset(_, _)
Offset(msgs, k) ==
    IF k = 1 THEN 0 ELSE Offset(msgs, k - 1) + Len(msgs[k - 1]) + 1

\* text is the messages in order, a newline between one and the next.
JoinedByNewline(text, msgs) ==
    IF msgs = <<>> THEN text = <<>>
    ELSE /\ Len(text) = Offset(msgs, Len(msgs)) + Len(msgs[Len(msgs)])
         /\ \A k \in 1..Len(msgs) :
               /\ SubSeq(text, Offset(msgs, k) + 1,
                          Offset(msgs, k) + Len(msgs[k])) = msgs[k]
               /\ k > 1 => text[Offset(msgs, k)] = 10

\* C14: whatever the buffer holds, the stdout view read from it is the
\* messages of exactly its records of level STDOUT (5), in buffer order,
\* joined by newline, and the stderr view the same for its records of level
\* STDERR (35); a record of any other level is in neither view.
C14_ViewsSelectByLevel ==
    ret # None =>
        /\ JoinedByNewline(ret[1].stdout, LevelMessages(ret[1].buffer, 5))
        /\ JoinedByNewline(ret[1].stderr, LevelMessages(ret[1].buffer, 35))

\* C14 witness: the views were read from a buffer with two STDOUT records
\* of different messages and an ERROR record between them.
C14_Witness ==
    /\ ret # None
    /\ Len(ret[1].buffer) = 4
    /\ ret[1].buffer[2] = Record(5, <<98, 99>>)
    /\ ret[1].buffer[3].level = 40
    /\ ret[1].buffer[4] = Record(5, <<97>>)
    /\ ret[1].stdout = <<98, 99, 10, 97>>
    /\ ret[1].stderr = <<>>

\* C17: every record emitted to a handler that prints is printed once, in
\* the order of emission, to the real stderr if its numeric level is at or
\* above 35 and to the real stdout otherwise, a level without a name going
\* by its number like any other; so STDERR (35), ERROR (40) and CRITICAL
\* (50) records are on the real stderr and STDOUT (5), DEBUG (10), INFO (20)
\* and WARNING (30) records on the real stdout.  STDOUT is below DEBUG, and
\* STDERR is above WARNING and below ERROR and CRITICAL.
C17_PrintStreamByLevel ==
    /\ term["stderr"] = SelectSeq(wemitted, LAMBDA r : r.level >= 35)
    /\ term["stdout"] = SelectSeq(wemitted, LAMBDA r : r.level < 35)
    /\ \A i \in 1..Len(term["stdout"]) :
          term["stdout"][i].level \notin {35, 40, 50}
    /\ \A i \in 1..Len(term["stderr"]) :
          term["stderr"][i].level \notin {5, 10, 20, 30}
    /\ STDOUT < 10
    /\ 30 < STDERR /\ STDERR < 40 /\ STDERR < 50

\* C17 witness: records of the levels STDERR and ERROR were printed to the
\* real stderr and a WARNING record to the real stdout.
C17_Witness ==
    /\ \E i \in 1..Len(term["stderr"]) : term["stderr"][i].level = 35
    /\ \E i \in 1..Len(term["stderr"]) : term["stderr"][i].level = 40
    /\ \E i \in 1..Len(term["stdout"]) : term["stdout"][i].level = 30

\* What was appended to a sequence that had n elements.
Appended(seq, n) == SubSeq(seq, n + 1, Len(seq))

\* C15: in every step of a run with log=True, the records the step appends
\* to the Process's buffer are appended to the Watch's buffer as well, the
\* same records in the same order, and nothing else is; no step of a run
\* with log=False changes the Watch's buffer, and when such a run returns
\* the Process's own buffer holds the records of the captured lines.
C15_LogFlagForwards ==
    /\ [][mpc' # "idle" =>
            /\ IsPrefix(buffer, buffer')
            /\ IF log'
                 THEN /\ IsPrefix(wbuffer, wbuffer')
                      /\ Appended(wbuffer', Len(wbuffer))
                           = Appended(buffer', Len(buffer))
                 ELSE wbuffer' = wbuffer]_vars
    /\ []((ProcessReturned /\ ~log) => OwnRecords(buffer, written))
    /\ []((ProcessReturned /\ log) =>
             /\ OwnRecords(buffer, written)
             /\ IsPrefix(buffer, Appended(wbuffer, Len(wbuffer) - Len(buffer))))

\* C15 witness: after a run with log=True, a run with log=False whose child
\* wrote to both streams has returned: the Watch's buffer is the hostname
\* entry and the records of the first run, and the second Process's buffer
\* holds its captured lines.
C15_Witness ==
    /\ ProcessReturned
    /\ ~log
    /\ Len(processes) = 2
    /\ processes[1].master
    /\ StreamRecords(processes[1].buffer) # <<>>
    /\ wbuffer = << Record(INFO, HostnameMsg) >> \o processes[1].buffer
    /\ StdoutView(buffer) # <<>>
    /\ StderrView(buffer) # <<>>

\* The calls of Watch.run that spawned a child and have ended, by returning
\* or by raising.
SpawnedCallsEnded ==
    Cardinality({k \in 1..Len(history) : history[k] # "OSError"})
      + (IF mpc = "done" /\ child # "none" THEN 1 ELSE 0)

\* C16 (as claimed): Watch.processes starts empty and holds one Process for
\* every call of Watch.run that spawned a child and has ended, whether the
\* call returned or raised.
C16_OneProcessPerSpawnedRun ==
    /\ (history = <<>> /\ mpc = "idle") => processes = <<>>
    /\ Len(processes) = SpawnedCallsEnded

\* The constructor of Process is running or has just returned.
InProcessInit ==
    mpc \in {"start_stdout", "start_stderr", "loop", "wait", "constructed"}

\* C18 (as claimed): constructing the object that watches a command has no
\* side effects: while the constructor runs and when it returns, no child
\* has been launched and nothing has been logged.
C18_ConstructionHasNoSideEffects ==
    InProcessInit => (child = "none" /\ buffer = <<>>)

\* C18 (amended): constructing the Watch launches no child, but it logs and
\* prints the hostname entry; a child is launched only by a call of
\* Watch.run, and there by the constructor of Process, which is the whole
\* run: it logs 'Run command' first, launches the child, and returns only
\* when the child has exited and its exit status is known.
C18_ConstructionOfProcessIsTheRun ==
    /\ [](mpc = "idle" => (child = "none" /\ buffer = <<>>))
    /\ [](/\ wemitted # <<>>
          /\ wemitted[1] = Record(INFO, HostnameMsg)
          /\ term["stdout"] # <<>>
          /\ term["stdout"][1] = Record(INFO, HostnameMsg))
    /\ [](InProcessInit =>
            /\ child # "none"
            /\ buffer # <<>>
            /\ buffer[1] = Record(INFO, RunCommandMsg))
    /\ [](mpc = "constructed" =>
            /\ child = "exited"
            /\ returncode # None
            /\ returncode = exitStatus)
    /\ [][(child = "none" /\ child' # "none")
            => (mpc = "idle" /\ mpc' = "start_stdout")]_vars

\* C18 witness: the constructor of Process has returned, before Watch.run
\* has stored the Process: the child has written, has exited with status 1,
\* and its lines are in the buffer.
C18_Witness ==
    /\ mpc = "constructed"
    /\ processes = <<>>
    /\ child = "exited"
    /\ returncode = Some(1)
    /\ StdoutView(buffer) # <<>>

(***************************************************************************)
(* C19, C20: ConfigReader.                                                 *)
(***************************************************************************)
\* The last call was reader.get(section, key).
GetReturned == ret # None /\ ret[1].op = "get"

\* What the order of the readers gives for (section, key): the value of the
\* first passed reader that has one, else the default of the spec, else
\* ValueError.
FirstInKeywordOrder(section, key) ==
    LET readers == conf[1].readers
        spec == conf[1].spec
        passed == { i \in 1..Len(readers) :
                      /\ readers[i].kind # "spec"
                      /\ ReaderGet(readers[i], section, key) # None }
        first == CHOOSE i \in passed : \A j \in passed : i <= j
        hasDefault == /\ section \in DOMAIN spec
                      /\ key \in DOMAIN spec[section]
                      /\ spec[section][key].default # None
    IN IF passed # {}
         THEN Return(ReaderGet(readers[first], section, key)[1])
         ELSE IF hasDefault
                THEN Return(spec[section][key].default[1])
                ELSE Raise("ValueError")

CheckReturned == ret # None /\ ret[1].op = "check_section"

\* Every key of spec[section] resolves, and to a value that is not empty
\* where the key is marked not_empty.
SectionComplete(section) ==
    \A key \in DOMAIN conf[1].spec[section] :
       LET res == SelectorGet(conf[1].readers, section, key)
       IN /\ res.exc = ""
          /\ (conf[1].spec[section][key].not_empty = Some(TRUE)
               => res.val \notin {"", PyNone})

\* C20: check_section returns True exactly when every key of spec[section]
\* can be resolved and every not_empty key resolves to a non-empty value; it
\* raises ValueError when some key cannot be resolved (marked not_empty or
\* not) or a not_empty key is empty, and KeyError when the section is not in
\* the spec.
C20_CheckSection ==
    CheckReturned =>
      LET section == ret[1].section IN
      ret[1].res = IF section \notin DOMAIN conf[1].spec
                     THEN Raise("KeyError")
                     ELSE IF SectionComplete(section)
                            THEN Return("True")
                            ELSE Raise("ValueError")

\* A section whose not_empty key has a value, while a key that is not marked
\* not_empty has none: ValueError.
C20_Witness ==
    /\ CheckReturned
    /\ ret[1].section = SecS
    /\ SecS \in DOMAIN conf[1].spec
    /\ DOMAIN conf[1].spec[SecS] = {KeyK, KeyDash}
    /\ conf[1].spec[SecS][KeyK].not_empty = Some(FALSE)
    /\ SelectorGet(conf[1].readers, SecS, KeyK).exc # ""
    /\ ret[1].res = Raise("ValueError")

(***************************************************************************)
(* C21: the line counts of a Process.                                      *)
(***************************************************************************)
\* The number of records of one level in a buffer.
NRecords(buf, level) ==
    Cardinality({i \in 1..Len(buf) : buf[i].level = level})

\* C21: line_count_stdout is the number of STDOUT records in the process
\* buffer and line_count_stderr the number of STDERR records, whatever
\* characters the recorded lines contain.
C21_LineCountsAreRecordCounts ==
    ret # None =>
      /\ ret[1].line_count_stdout = NRecords(ret[1].buffer, STDOUT)
      /\ ret[1].line_count_stderr = NRecords(ret[1].buffer, STDERR)

(***************************************************************************)
(* C23: the text recorded for a line.                                      *)
(***************************************************************************)
\* The consumer takes a line off the queue and records it.
RecordsLine ==
    /\ mpc = "loop"
    /\ queue # <<>>
    /\ Head(queue) # None
    /\ Len(buffer') = Len(buffer) + 1

\* C23: the text recorded for a captured line is the line right-trimmed:
\* trailing whitespace and the line terminator are removed, leading
\* whitespace is preserved.
C23_RecordedTextRightTrimmed ==
    [][RecordsLine => buffer'[Len(buffer')].msg = RStrip(Head(queue)[1])]_vars

(***************************************************************************)
(* C24: the two sentinels.                                                 *)
(***************************************************************************)
\* The consumer takes an item off the queue.
TakesItem == mpc = "loop" /\ queue # <<>> /\ queue' = Tail(queue)

\* C24: the consumer loop consumes exactly two sentinels.  The first one
\* leaves it in the loop, where a non-blank line taken afterwards is still
\* recorded; the second one ends it, and at that moment each reader has put
\* exactly one sentinel (it is finished, and as many sentinels were put as
\* readers are finished) and the queue is empty.
C24_TwoSentinels ==
    /\ [](Cardinality({s \in Streams : rpc[s] = "done"}) = SentinelsPut)
    /\ [][(TakesItem /\ Head(queue) = None /\ nloop = 0)
            => (mpc' = "loop" /\ nloop' = 1)]_vars
    /\ [][(TakesItem /\ Head(queue) # None /\ nloop = 1
             /\ ~IsBlank(Head(queue)[1]))
            => (/\ mpc' = "loop"
                /\ Len(buffer') = Len(buffer) + 1
                /\ buffer'[Len(buffer')] =
                      Record(LevelOf(Head(queue)[2]), Strip(Head(queue)[1])))]_vars
    /\ [][(TakesItem /\ Head(queue) = None /\ nloop = 1)
            => (/\ mpc' = "wait"
                /\ nloop' = 2
                /\ queue' = <<>>
                /\ \A s \in Streams : rpc[s] = "done")]_vars
    /\ [](nloop <= 2 /\ (mpc = "loop" => nloop < 2))

\* C24 witness: the loop has ended at the second sentinel, and the last
\* record of the buffer is a line of the stream that was still open when the
\* other stream's records were already there.
C24_Witness ==
    /\ mpc = "wait"
    /\ nloop = 2
    /\ Len(buffer) = 3
    /\ buffer[2].level = STDERR
    /\ buffer[3].level = STDOUT
    /\ written["stderr"] = << LineA >>
    /\ written["stdout"] = << LineB >>

(***************************************************************************)
(* C25: who writes what.                                                   *)
(***************************************************************************)
\* A step of a reader thread: it takes a line out of its pipe, or it moves
\* on in its code (to the finally clause, to its end).
ReaderActs ==
    \E s \in Streams : \/ (pipe[s] # <<>> /\ pipe'[s] = Tail(pipe[s]))
                       \/ (rpc[s] # "unstarted" /\ rpc'[s] # rpc[s])

\* A step of the calling thread: its position changes or it takes an item
\* off the queue.
ConsumerActs == mpc' # mpc \/ (mpc = "loop" /\ queue # <<>> /\ queue' = Tail(queue))

\* C25: during a run the two reader threads only put items on the queue:
\* a step of a reader changes no log buffer, prints nothing and changes of
\* the program's objects only the queue (and its pipe and its own position);
\* every change of the process buffer and of the Watch buffer is made by a
\* step of the consumer on the calling thread.
C25_OnlyQueueShared ==
    /\ [][ReaderActs =>
            /\ UNCHANGED << buffer, wbuffer, wemitted, term, processes,
                            returncode, nloop, mpc, reports, outcome >>
            /\ (queue' = queue \/ (\E item \in {None} \cup
                                     { <<Head(pipe[s]), s>> :
                                         s \in {u \in Streams : pipe[u] # <<>>} } :
                                     queue' = Append(queue, item)))]_vars
    /\ [][(buffer' # buffer \/ wbuffer' # wbuffer) => ConsumerActs]_vars

\* C25 witness: both reader threads have put a line on the queue while the
\* consumer has recorded one line in both buffers.
C25_Witness ==
    /\ mpc = "loop"
    /\ \A s \in Streams : rpc[s] = "reading"
    /\ Len(queue) = 2
    /\ queue[1][2] # queue[2][2]
    /\ Len(buffer) = 2
    /\ Len(wbuffer) = 3

(***************************************************************************)
(* C29: every record is printed once.                                      *)
(***************************************************************************)
\* The Process of the call in progress logs a record.
LogsRecord == Len(buffer') = Len(buffer) + 1

\* C29: every record logged during a run is printed exactly once.  The step
\* that logs it appends it once to one real stream and nothing else to
\* either stream; with a master logger the record has gone to the Watch's
\* handler (which printed it), without one the Watch's handler has not seen
\* it; nothing is printed by any other step of a run.
C29_PrintedExactlyOnce ==
    /\ [][LogsRecord =>
            LET rec == buffer'[Len(buffer')] IN
            /\ term' = [term EXCEPT ![PrintStream(rec)] = Append(@, rec)]
            /\ IF MasterLogger(log')
                 THEN wemitted' = Append(wemitted, rec)
                 ELSE wemitted' = wemitted]_vars
    /\ [][term' # term => LogsRecord]_vars

\* C29 witness: a second run without a master logger has recorded a line
\* after a first run with one, and the line of each run was printed once.
C29_Witness ==
    /\ Len(processes) = 1
    /\ processes[1].master
    /\ Len(processes[1].buffer) = 3
    /\ ~MasterLogger(log)
    /\ mpc = "loop"
    /\ Len(buffer) = 2
    /\ Len(term["stdout"]) = 6
    /\ Len(wemitted) = 4

(***************************************************************************)
(* C22: the log records of a report.                                       *)
(***************************************************************************)
\* A report is handed to the reporter.
Reports == Len(reports') = Len(reports) + 1

\* The formatted lines of records: timestamp, level name and message,
\* separated by blanks.
FormattedLines(records) ==
    [i \in 1..Len(records) |->
        Asctime \o <<32>> \o NameText(LevelName(records[i].level))
                \o <<32>> \o records[i].msg]

\* C22: Watch.report hands to the channels, as log_records, the full
\* rendering of the Watch's buffer at the time of the call: one formatted
\* line for every record appended so far, in buffer order, none omitted;
\* every channel of the reporter gets that message.
C22_ReportCarriesFullRendering ==
    [][Reports =>
         LET message == reports'[Len(reports')] IN
         /\ JoinedByNewline(message.log_records, FormattedLines(wbuffer))
         /\ wbuffer = wemitted
         /\ delivered' = delivered \o
              [i \in 1..Len(channels) |->
                  [channel |-> channels[i], report |-> Len(reports')]]]_vars

\* C22 witness: a report was made when the buffer held the hostname entry,
\* the entry of the e-mail channel, a STDOUT and a STDERR record; its
\* log_records are four lines, and the e-mail channel got it.
C22_Witness ==
    /\ Len(reports) = 1
    /\ Len(wbuffer) = 5
    /\ wbuffer[3].level = STDOUT
    /\ wbuffer[4].level = STDERR
    /\ Len(SelectSeq(reports[1].log_records, LAMBDA c : c = 10)) = 3
    /\ delivered = << [channel |-> Channel("email", 1), report |-> 1] >>

(***************************************************************************)
(* C26: the report of a failed run.                                        *)
(***************************************************************************)
\* Watch.run ends by raising CommandWatcherError.
RunRaises == outcome = None /\ outcome' = Some("CommandWatcherError")

HandedTo ==
    [j \in 1..(Len(delivered') - Len(delivered)) |->
        delivered'[Len(delivered) + j].channel]

\* The Watch that issued the report of this step.
Issuer == watches[reports'[Len(reports')].watch]

\* C27: after any number of Watch objects were constructed from one
\* configuration (report_channels not given), one call of Watch.report
\* delivers the message exactly once to each channel the configuration
\* enables.
C27_OncePerEnabledChannel ==
    [][(/\ Reports
        /\ \A i \in 1..Len(watches) :
              /\ watches[i].report_channels = None
              /\ watches[i].config = watches[1].config)
       => \A kind \in watches[1].config :
             Cardinality({j \in 1..Len(HandedTo) : HandedTo[j].kind = kind}) = 1]_vars

\* C28: the reports issued through a Watch constructed with
\* report_channels=L (a list) are delivered to exactly the channels in L,
\* and the construction of such a Watch leaves the channels that the other
\* Watch objects report to as they were.
C28_ReportChannelsRespected ==
    /\ [][(Reports /\ Issuer.report_channels # None)
            => HandedTo = Issuer.report_channels[1]]_vars
    /\ [][(/\ Len(watches') = Len(watches) + 1
           /\ watches'[Len(watches')].report_channels # None)
            => channels' = channels]_vars

(***************************************************************************)
(* C30                                                                     *)
(***************************************************************************)
EntersBlock == Len(blocks') = Len(blocks) + 1
LeavesBlock == Len(blocks') = Len(blocks) - 1

\* C30: Capturing replaces only the selected stream and restores it: when a
\* with Capturing block is left, normally or by an exception, sys.stdout and
\* sys.stderr are the objects they were when the block was entered, nested
\* blocks included (outside every block they are the interpreter's own
\* streams); entering and leaving a block leave the stream that was not
\* selected in place, and nothing else replaces a stream.
C30_CapturingRestoresStreams ==
    /\ [][LeavesBlock => sys' = blocks[Len(blocks)].before]_vars
    /\ [][EntersBlock =>
            /\ sys'[blocks'[Len(blocks')].stream] = blocks'[Len(blocks')].stringio
            /\ \A s \in Streams \ {blocks'[Len(blocks')].stream} :
                  sys'[s] = sys[s]]_vars
    /\ [][LeavesBlock =>
            \A s \in Streams \ {blocks[Len(blocks)].stream} : sys'[s] = sys[s]]_vars
    /\ [][Len(blocks') = Len(blocks) => sys' = sys]_vars
    /\ [](blocks = <<>> => sys = [s \in Streams |-> RealStream(s)])

\* The inner of two nested blocks was left by an exception after it had
\* captured a line, and the outer block's StringIO is back in the place of
\* its stream, the other stream being the interpreter's own.
C30_Witness ==
    /\ Len(blocks) = 1
    /\ ret # None
    /\ ret[1].exc = "KeyError"
    /\ ret[1].output # <<>>
    /\ blocks[1].stream = "stdout"
    /\ sys = [stdout |-> blocks[1].stringio, stderr |-> RealStream("stderr")]

=============================================================================
